---- MODULE Spec2Model ----
(***************************************************************************)
(* Model of the rounding core of the `rounders` package:                   *)
(*   rounders/modes.py              the 13 rounding modes                  *)
(*   rounders/intermediate_form.py  IntermediateForm                       *)
(*   rounders/fraction_overloads.py, rounders/decimal_overloads.py         *)
(*   rounders/round_to.py           round_to_int / _places / _figures      *)
(*   rounders/format.py             TargetFormat, round_for_format         *)
(*                                                                         *)
(* The package is purely functional.  A behaviour of the model is one      *)
(* call: Init draws the value `input` to be rounded, and each action is   *)
(* one entry point of the package applied to it, with arguments drawn from *)
(* small sets; the action stores the call, the locals of the entry point   *)
(* (`prerounded`, `rounded`) and what it returns or raises.                *)
(***************************************************************************)
EXTENDS Integers, Sequences, FiniteSets, TLC

VARIABLES input, op, args, prerounded, rounded, result

vars == <<input, op, args, prerounded, rounded, result>>

(***************************************************************************)
(* Bounds of the model.                                                    *)
(***************************************************************************)
\* Fractions n/d with |n| <= MaxNumerator and 1 <= d <= MaxDenominator.
MaxNumerator == 24
MaxDenominator == 8
\* Significands (Decimal coefficients) 0..MaxSignificand.
MaxSignificand == 104
\* Exponents of the values passed in: -MaxExponent..MaxExponent.
MaxExponent == 1
\* Target exponents / places: -MaxTarget..MaxTarget.
MaxTarget == 2
\* Significant figures asked for: 1..MaxFigures.
MaxFigures == 2
\* Minimum exponents of target formats: -MaxMinimumExponent..MaxMinimumExponent.
MaxMinimumExponent == 1

\* Fractions n/d with |n| <= MaxWideNumerator and 1 <= d <= MaxWideDenominator
\* are passed to decade.
MaxWideNumerator == 120
MaxWideDenominator == 110

(***************************************************************************)
(* Python values.                                                          *)
(***************************************************************************)
\* Optional[int]
None == [is_none |-> TRUE, value |-> 0]
Some(n) == [is_none |-> FALSE, value |-> n]

\* A state variable that holds nothing (yet).
NoValue == [tag |-> "NoValue"]

\* raise ValueError(...)
ValueError == [tag |-> "ValueError"]

Max(a, b) == IF a >= b THEN a ELSE b

Abs(n) == IF n < 0 THEN -n ELSE n

RECURSIVE Gcd(_, _)
Gcd(a, b) == IF b = 0 THEN a ELSE Gcd(b, a % b)

\* str(n) for n >= 0, as the sequence of its decimal digits.
RECURSIVE str(_)
str(n) == IF n < 10 THEN <<n>> ELSE Append(str(n \div 10), n % 10)

\* int(s) for a sequence of decimal digits.
RECURSIVE int(_)
int(s) ==
    IF Len(s) = 0 THEN 0
    ELSE 10 * int(SubSeq(s, 1, Len(s) - 1)) + s[Len(s)]

\* s.rstrip("0")
RECURSIVE rstrip0(_)
rstrip0(s) ==
    IF Len(s) > 0 /\ s[Len(s)] = 0
    THEN rstrip0(SubSeq(s, 1, Len(s) - 1))
    ELSE s

\* s < t for strings of digits (lexicographic order).
RECURSIVE StrLess(_, _)
StrLess(s, t) ==
    IF Len(t) = 0 THEN FALSE
    ELSE IF Len(s) = 0 THEN TRUE
    ELSE IF s[1] # t[1] THEN s[1] < t[1]
    ELSE StrLess(Tail(s), Tail(t))

\* fractions.Fraction(numerator, denominator): normalised to lowest terms.
Fraction(numerator, denominator) ==
    LET g == Gcd(Abs(numerator), denominator) IN
    [tag |-> "Fraction",
     numerator |-> numerator \div g,
     denominator |-> denominator \div g]

\* decimal.Decimal: special is "finite", "inf" or "nan".
Decimal(special, sign, significand, exponent) ==
    [tag |-> "Decimal", special |-> special, sign |-> sign,
     significand |-> significand, exponent |-> exponent]

(***************************************************************************)
(* rounders/modes.py                                                       *)
(***************************************************************************)
\* _StandardRoundingMode(signature, name); signature[sign + 1][is_odd + 1]
StandardRoundingMode(signature, name) ==
    [class |-> "_StandardRoundingMode", signature |-> signature, name |-> name]

TO_ZERO_05_AWAY ==
    [class |-> "_RoundForReroundRoundingMode", signature |-> <<>>,
     name |-> "to zero (05 away)"]

TIES_TO_ZERO == StandardRoundingMode(<<<<4, 4>>, <<4, 4>>>>, "ties to zero")
TIES_TO_AWAY == StandardRoundingMode(<<<<5, 5>>, <<5, 5>>>>, "ties to away")
TIES_TO_MINUS == StandardRoundingMode(<<<<4, 4>>, <<5, 5>>>>, "ties to minus")
\* Ties to plus with the rows of the two signs exchanged.
TIES_TO_PLUS_RowsSwapped ==
    StandardRoundingMode(<<<<4, 4>>, <<5, 5>>>>, "ties to plus")

TIES_TO_PLUS == StandardRoundingMode(<<<<5, 5>>, <<4, 4>>>>, "ties to plus")
TIES_TO_EVEN == StandardRoundingMode(<<<<4, 5>>, <<4, 5>>>>, "ties to even")
TIES_TO_ODD == StandardRoundingMode(<<<<5, 4>>, <<5, 4>>>>, "ties to odd")

TO_ZERO == StandardRoundingMode(<<<<0, 0>>, <<0, 0>>>>, "to zero")
TO_AWAY == StandardRoundingMode(<<<<9, 9>>, <<9, 9>>>>, "to away")
\* To minus with the rows of the two signs exchanged.
TO_MINUS_RowsSwapped ==
    StandardRoundingMode(<<<<9, 9>>, <<0, 0>>>>, "to minus")

TO_MINUS == StandardRoundingMode(<<<<0, 0>>, <<9, 9>>>>, "to minus")
\* To plus that rounds the values of both signs upwards in magnitude.
TO_PLUS_BothRowsUp ==
    StandardRoundingMode(<<<<9, 9>>, <<9, 9>>>>, "to plus")

TO_PLUS == StandardRoundingMode(<<<<9, 9>>, <<0, 0>>>>, "to plus")
TO_EVEN == StandardRoundingMode(<<<<0, 9>>, <<0, 9>>>>, "to even")
TO_ODD == StandardRoundingMode(<<<<9, 0>>, <<9, 0>>>>, "to odd")

ToNearestModes ==
    {TIES_TO_ZERO, TIES_TO_AWAY, TIES_TO_MINUS,
     TIES_TO_PLUS, TIES_TO_EVEN, TIES_TO_ODD}

DirectedModes == {TO_ZERO, TO_AWAY, TO_MINUS, TO_PLUS, TO_EVEN, TO_ODD}

Modes == ToNearestModes \cup DirectedModes \cup {TO_ZERO_05_AWAY}

\* _StandardRoundingMode.round that rounds up below the threshold and down
\* from it on.
StandardRoundingMode_round_Inverted(self, sign, significand, tenths) ==
    LET is_odd == significand % 2
        round_up == tenths > 0
                      /\ tenths + self.signature[sign + 1][is_odd + 1] < 10
    IN  significand + (IF round_up THEN 1 ELSE 0)

\* _StandardRoundingMode.round with the threshold off by one.
StandardRoundingMode_round_Ge9(self, sign, significand, tenths) ==
    LET is_odd == significand % 2
        round_up == tenths + self.signature[sign + 1][is_odd + 1] >= 9
    IN  significand + (IF round_up THEN 1 ELSE 0)

\* _StandardRoundingMode.round
StandardRoundingMode_round(self, sign, significand, tenths) ==
    LET is_odd == significand % 2
        round_up == tenths + self.signature[sign + 1][is_odd + 1] >= 10
    IN  significand + (IF round_up THEN 1 ELSE 0)

\* _RoundForReroundRoundingMode.round that rounds up from a last digit 5
\* only, not from a last digit 0.
RoundForReroundRoundingMode_round_Only5(self, sign, significand, tenths) ==
    LET round_up == tenths > 0 /\ significand % 10 = 5
    IN  significand + (IF round_up THEN 1 ELSE 0)

\* _RoundForReroundRoundingMode.round that rounds to zero in every case.
RoundForReroundRoundingMode_round_ToZero(self, sign, significand, tenths) ==
    significand

\* _RoundForReroundRoundingMode.round that rounds up from a last digit 0
\* only, not from a last digit 5.
RoundForReroundRoundingMode_round_Only0(self, sign, significand, tenths) ==
    LET round_up == tenths > 0 /\ significand % 10 = 0
    IN  significand + (IF round_up THEN 1 ELSE 0)

\* _RoundForReroundRoundingMode.round
RoundForReroundRoundingMode_round(self, sign, significand, tenths) ==
    LET round_up == tenths > 0 /\ significand % 5 = 0
    IN  significand + (IF round_up THEN 1 ELSE 0)

\* mode.round(sign, significand, tenths): dispatch on the class of the mode.
RoundingMode_round(mode, sign, significand, tenths) ==
    IF mode.class = "_StandardRoundingMode"
    THEN StandardRoundingMode_round(mode, sign, significand, tenths)
    ELSE RoundForReroundRoundingMode_round(mode, sign, significand, tenths)

(***************************************************************************)
(* rounders/intermediate_form.py                                           *)
(***************************************************************************)
\* The dataclass: the value is (-1)**sign * significand * 10**exponent.
IntermediateForm(sign, significand, exponent) ==
    [tag |-> "IntermediateForm", sign |-> sign,
     significand |-> significand, exponent |-> exponent]

\* The largest k with p**k dividing d (d > 0).
RECURSIVE Multiplicity(_, _)
Multiplicity(d, p) ==
    IF d % p = 0 THEN 1 + Multiplicity(d \div p, p) ELSE 0

\* _smallest_ten_power_multiple returning the smaller of the two exponents.
smallest_ten_power_multiple_Min(d) ==
    LET two_exp == Multiplicity(d, 2)
        d2 == d \div (2 ^ two_exp)
        five_exp == Multiplicity(d2, 5)
        d5 == d2 \div (5 ^ five_exp)
    IN  IF d5 # 1 THEN -1
        ELSE IF two_exp <= five_exp THEN two_exp ELSE five_exp

\* _smallest_ten_power_multiple that removes the powers of two only.
smallest_ten_power_multiple_TwosOnly(d) ==
    LET two_exp == Multiplicity(d, 2)
        d2 == d \div (2 ^ two_exp)
    IN  IF d2 # 1 THEN -1 ELSE two_exp

\* _smallest_ten_power_multiple(d); -1 stands for the ValueError it raises.
smallest_ten_power_multiple(d) ==
    LET two_exp == Multiplicity(d, 2)
        d2 == d \div (2 ^ two_exp)
        five_exp == Multiplicity(d2, 5)
        d5 == d2 \div (5 ^ five_exp)
    IN  IF d5 # 1 THEN -1 ELSE Max(two_exp, five_exp)

\* from_signed_fraction that adds one to every inexact quotient.
from_signed_fraction_AlwaysUp(sign, numerator, denominator, exponent) ==
    IF numerator < 0 \/ denominator <= 0 THEN ValueError
    ELSE IF exponent.is_none THEN
        LET e == smallest_ten_power_multiple(denominator) IN
        IF e < 0 THEN ValueError
        ELSE IntermediateForm(sign,
                              numerator * ((10 ^ e) \div denominator),
                              -e)
    ELSE
        LET n == IF exponent.value <= 0
                 THEN numerator * (10 ^ (-exponent.value))
                 ELSE numerator
            d == IF exponent.value <= 0
                 THEN denominator
                 ELSE denominator * (10 ^ exponent.value)
            significand == n \div d
            inexact == n % d
        IN  IntermediateForm(
                sign,
                significand + (IF inexact # 0 THEN 1 ELSE 0),
                exponent.value)

\* from_signed_fraction that truncates the quotient: no round-for-reround.
from_signed_fraction_Floor(sign, numerator, denominator, exponent) ==
    IF numerator < 0 \/ denominator <= 0 THEN ValueError
    ELSE IF exponent.is_none THEN
        LET e == smallest_ten_power_multiple(denominator) IN
        IF e < 0 THEN ValueError
        ELSE IntermediateForm(sign,
                              numerator * ((10 ^ e) \div denominator),
                              -e)
    ELSE
        LET n == IF exponent.value <= 0
                 THEN numerator * (10 ^ (-exponent.value))
                 ELSE numerator
            d == IF exponent.value <= 0
                 THEN denominator
                 ELSE denominator * (10 ^ exponent.value)
            significand == n \div d
        IN  IntermediateForm(sign, significand, exponent.value)

\* from_signed_fraction moving an inexact quotient off a last digit 0 only,
\* not off a last digit 5.
from_signed_fraction_Only0(sign, numerator, denominator, exponent) ==
    IF numerator < 0 \/ denominator <= 0 THEN ValueError
    ELSE IF exponent.is_none THEN
        LET e == smallest_ten_power_multiple(denominator) IN
        IF e < 0 THEN ValueError
        ELSE IntermediateForm(sign,
                              numerator * ((10 ^ e) \div denominator),
                              -e)
    ELSE
        LET n == IF exponent.value <= 0
                 THEN numerator * (10 ^ (-exponent.value))
                 ELSE numerator
            d == IF exponent.value <= 0
                 THEN denominator
                 ELSE denominator * (10 ^ exponent.value)
            significand == n \div d
            inexact == n % d
        IN  IntermediateForm(
                sign,
                significand
                  + (IF inexact # 0 /\ significand % 10 = 0 THEN 1 ELSE 0),
                exponent.value)

\* IntermediateForm.from_signed_fraction; exponent is an Optional[int].
from_signed_fraction(sign, numerator, denominator, exponent) ==
    IF numerator < 0 \/ denominator <= 0 THEN ValueError
    ELSE IF exponent.is_none THEN
        LET e == smallest_ten_power_multiple(denominator) IN
        IF e < 0 THEN ValueError
        ELSE IntermediateForm(sign,
                              numerator * ((10 ^ e) \div denominator),
                              -e)
    ELSE
        LET n == IF exponent.value <= 0
                 THEN numerator * (10 ^ (-exponent.value))
                 ELSE numerator
            d == IF exponent.value <= 0
                 THEN denominator
                 ELSE denominator * (10 ^ exponent.value)
            significand == n \div d
            inexact == n % d
        IN  IntermediateForm(
                sign,
                significand
                  + (IF inexact # 0 /\ significand % 5 = 0 THEN 1 ELSE 0),
                exponent.value)

\* IntermediateForm.figures
IntermediateForm_figures(self) ==
    IF self.significand # 0 THEN Len(str(self.significand)) ELSE 0

\* IntermediateForm.decade; raises ValueError when the significand is zero,
\* and the callers below test for that before they use it.
IntermediateForm_decade(self) ==
    self.exponent + IntermediateForm_figures(self) - 1

\* IntermediateForm.is_zero
IntermediateForm_is_zero(self) == self.significand = 0

\* IntermediateForm.nudge that drops the last digit whatever it is.
IntermediateForm_nudge_DropsAnyDigit(self, figures) ==
    IF IntermediateForm_figures(self) <= figures THEN self
    ELSE IF IntermediateForm_figures(self) # figures + 1 THEN ValueError
    ELSE IntermediateForm(self.sign, self.significand \div 10,
                          self.exponent + 1)

\* IntermediateForm.nudge
IntermediateForm_nudge(self, figures) ==
    IF IntermediateForm_figures(self) <= figures THEN self
    ELSE IF IntermediateForm_figures(self) # figures + 1 THEN ValueError
    ELSE LET new_significand == self.significand \div 10
             tenths == self.significand % 10
         IN  IF tenths # 0 THEN ValueError
             ELSE IntermediateForm(self.sign, new_significand,
                                   self.exponent + 1)

\* IntermediateForm.round that changes the exponent without adding the
\* zeros to the significand.
IntermediateForm_round_NoPad(self, exponent, mode) ==
    LET diff == self.exponent - exponent IN
    IF diff >= 0
    THEN IntermediateForm(self.sign, self.significand, exponent)
    ELSE LET ten_diff == 10 ^ (-diff - 1)
             kept == self.significand \div (10 * ten_diff)
             remainder == self.significand % (10 * ten_diff)
             rounding0 == remainder \div ten_diff
             trailing == remainder % ten_diff
             rounding == rounding0
                + (IF trailing # 0 /\ rounding0 \in {0, 5} THEN 1 ELSE 0)
             significand == RoundingMode_round(mode, self.sign, kept, rounding)
         IN  IntermediateForm(self.sign, significand, exponent)

\* IntermediateForm.round that looks at the rounding digit alone and drops
\* the trailing digits.
IntermediateForm_round_NoTrailing(self, exponent, mode) ==
    LET diff == self.exponent - exponent IN
    IF diff >= 0
    THEN IntermediateForm(self.sign, self.significand * (10 ^ diff), exponent)
    ELSE LET ten_diff == 10 ^ (-diff - 1)
             kept == self.significand \div (10 * ten_diff)
             remainder == self.significand % (10 * ten_diff)
             rounding == remainder \div ten_diff
             significand == RoundingMode_round(mode, self.sign, kept, rounding)
         IN  IntermediateForm(self.sign, significand, exponent)

\* IntermediateForm.round that bumps a rounding digit 0 or 5 whether or not
\* a trailing digit is nonzero.
IntermediateForm_round_AlwaysBump(self, exponent, mode) ==
    LET diff == self.exponent - exponent IN
    IF diff >= 0
    THEN IntermediateForm(self.sign, self.significand * (10 ^ diff), exponent)
    ELSE LET ten_diff == 10 ^ (-diff - 1)
             kept == self.significand \div (10 * ten_diff)
             remainder == self.significand % (10 * ten_diff)
             rounding0 == remainder \div ten_diff
             rounding == rounding0 + (IF rounding0 \in {0, 5} THEN 1 ELSE 0)
             significand == RoundingMode_round(mode, self.sign, kept, rounding)
         IN  IntermediateForm(self.sign, significand, exponent)

\* IntermediateForm.round that gives a zero result the sign 0.
IntermediateForm_round_UnsignedZero(self, exponent, mode) ==
    LET diff == self.exponent - exponent IN
    IF diff >= 0
    THEN IntermediateForm(self.sign, self.significand * (10 ^ diff), exponent)
    ELSE LET ten_diff == 10 ^ (-diff - 1)
             kept == self.significand \div (10 * ten_diff)
             remainder == self.significand % (10 * ten_diff)
             rounding0 == remainder \div ten_diff
             trailing == remainder % ten_diff
             rounding == rounding0
                + (IF trailing # 0 /\ rounding0 \in {0, 5} THEN 1 ELSE 0)
             significand == RoundingMode_round(mode, self.sign, kept, rounding)
         IN  IntermediateForm(IF significand = 0 THEN 0 ELSE self.sign,
                              significand, exponent)

\* IntermediateForm.round
IntermediateForm_round(self, exponent, mode) ==
    LET diff == self.exponent - exponent IN
    IF diff >= 0
    THEN IntermediateForm(self.sign, self.significand * (10 ^ diff), exponent)
    ELSE LET ten_diff == 10 ^ (-diff - 1)
             kept == self.significand \div (10 * ten_diff)
             remainder == self.significand % (10 * ten_diff)
             rounding0 == remainder \div ten_diff
             trailing == remainder % ten_diff
             rounding == rounding0
                + (IF trailing # 0 /\ rounding0 \in {0, 5} THEN 1 ELSE 0)
             significand == RoundingMode_round(mode, self.sign, kept, rounding)
         IN  IntermediateForm(self.sign, significand, exponent)

\* IntermediateForm.force_unsigned_zero that copies the sign of a zero.
IntermediateForm_force_unsigned_zero_KeepsSign(self) ==
    IF self.significand # 0 THEN self
    ELSE IntermediateForm(self.sign, self.significand, self.exponent)

\* IntermediateForm.force_unsigned_zero
IntermediateForm_force_unsigned_zero(self) ==
    IF self.significand # 0 THEN self
    ELSE IntermediateForm(0, self.significand, self.exponent)

\* IntermediateForm.__int__; an exponent other than 0 raises ValueError.
IntermediateForm_int(self) ==
    IF self.exponent # 0 THEN ValueError
    ELSE [tag |-> "int",
          value |-> IF self.sign # 0 THEN -self.significand
                    ELSE self.significand]

\* A Python int.
PyInt(n) == [tag |-> "int", value |-> n]

(***************************************************************************)
(* rounders/fraction_overloads.py                                          *)
(***************************************************************************)
\* decade, Fraction overload, comparing the digit strings with their
\* trailing zeros left in place.
decade_Fraction_NoStrip(x) ==
    IF x.numerator = 0 THEN ValueError
    ELSE LET sn == str(Abs(x.numerator))
             sd == str(x.denominator)
         IN  PyInt(Len(sn) - Len(sd) - (IF StrLess(sn, sd) THEN 1 ELSE 0))

\* decade, Fraction overload: computed from the digit strings.
decade_Fraction(x) ==
    IF x.numerator = 0 THEN ValueError
    ELSE LET sn == str(Abs(x.numerator))
             sd == str(x.denominator)
         IN  PyInt(Len(sn) - Len(sd)
                 - (IF StrLess(rstrip0(sn), rstrip0(sd)) THEN 1 ELSE 0))

\* to_type_of, Fraction overload
to_type_of_Fraction(x, r) ==
    LET numerator == IF r.exponent >= 0
                     THEN r.significand * (10 ^ r.exponent)
                     ELSE r.significand
        denominator == IF r.exponent >= 0 THEN 1 ELSE 10 ^ (-r.exponent)
    IN  IF r.sign # 0
        THEN Fraction(-numerator, denominator)
        ELSE Fraction(numerator, denominator)

\* preround, Fraction overload, pre-rounding at the exponent asked for
\* instead of one digit below it.
preround_Fraction_SameExponent(x, exponent) ==
    from_signed_fraction(
        IF x.numerator < 0 THEN 1 ELSE 0,
        Abs(x.numerator),
        x.denominator,
        exponent)

\* preround, Fraction overload: one digit more than the exponent asked for.
preround_Fraction(x, exponent) ==
    from_signed_fraction(
        IF x.numerator < 0 THEN 1 ELSE 0,
        Abs(x.numerator),
        x.denominator,
        IF exponent.is_none THEN None ELSE Some(exponent.value - 1))

(***************************************************************************)
(* rounders/decimal_overloads.py                                           *)
(***************************************************************************)
\* to_type_of, Decimal overload: prints the value and parses the string.
to_type_of_Decimal(x, r) ==
    Decimal("finite", r.sign, int(str(r.significand)), r.exponent)

\* preround, Decimal overload: an exact conversion that ignores `exponent`.
preround_Decimal(x, exponent) ==
    IF x.special # "finite" THEN ValueError
    ELSE IntermediateForm(x.sign, int(str(x.significand)), x.exponent)

\* decade, Decimal overload: int(x.logb())
decade_Decimal(x) ==
    IF x.special = "finite" /\ x.significand = 0 THEN ValueError
    ELSE IF x.special # "finite" THEN ValueError
    ELSE PyInt(x.exponent + Len(str(x.significand)) - 1)

(***************************************************************************)
(* rounders/generics.py: single dispatch on the type of x.                 *)
(***************************************************************************)
decade(x) ==
    IF x.tag = "Fraction" THEN decade_Fraction(x) ELSE decade_Decimal(x)

to_type_of(x, r) ==
    IF x.tag = "Fraction" THEN to_type_of_Fraction(x, r)
    ELSE to_type_of_Decimal(x, r)

is_finite(x) ==
    IF x.tag = "Fraction" THEN TRUE ELSE x.special = "finite"

is_zero(x) ==
    IF x.tag = "Fraction" THEN x.numerator = 0
    ELSE x.special = "finite" /\ x.significand = 0

preround(x, exponent) ==
    IF x.tag = "Fraction" THEN preround_Fraction(x, exponent)
    ELSE preround_Decimal(x, exponent)

(***************************************************************************)
(* rounders/round_to.py                                                    *)
(* Each operator gives the locals `prerounded` and `rounded` next to the   *)
(* value returned (or the error raised) in `result`.                       *)
(***************************************************************************)
Outcome(p, r, res) == [prerounded |-> p, rounded |-> r, result |-> res]

\* round_to_int that returns a non-finite value unchanged, as
\* round_to_places does.
round_to_int_PassThrough(value, mode) ==
    IF ~is_finite(value) THEN Outcome(NoValue, NoValue, value)
    ELSE LET p == preround(value, Some(0)) IN
         IF p.tag = "ValueError" THEN Outcome(NoValue, NoValue, ValueError)
         ELSE LET r == IntermediateForm_round(p, 0, mode) IN
              Outcome(p, r, IntermediateForm_int(r))

round_to_int(value, mode) ==
    IF ~is_finite(value) THEN Outcome(NoValue, NoValue, ValueError)
    ELSE LET p == preround(value, Some(0)) IN
         IF p.tag = "ValueError" THEN Outcome(NoValue, NoValue, ValueError)
         ELSE LET r == IntermediateForm_round(p, 0, mode) IN
              Outcome(p, r, IntermediateForm_int(r))

\* round_to_places that takes `places` for the exponent to round to.
round_to_places_PlacesAsExponent(value, places, mode) ==
    IF ~is_finite(value) THEN Outcome(NoValue, NoValue, value)
    ELSE LET p == preround(value, Some(places)) IN
         IF p.tag = "ValueError" THEN Outcome(NoValue, NoValue, ValueError)
         ELSE LET r == IntermediateForm_round(p, places, mode) IN
              Outcome(p, r, to_type_of(value, r))

\* round_to_places that rejects a non-finite value, as round_to_int does.
round_to_places_Raises(value, places, mode) ==
    IF ~is_finite(value) THEN Outcome(NoValue, NoValue, ValueError)
    ELSE LET p == preround(value, Some(-places)) IN
         IF p.tag = "ValueError" THEN Outcome(NoValue, NoValue, ValueError)
         ELSE LET r == IntermediateForm_round(p, -places, mode) IN
              Outcome(p, r, to_type_of(value, r))

round_to_places(value, places, mode) ==
    IF ~is_finite(value) THEN Outcome(NoValue, NoValue, value)
    ELSE LET p == preround(value, Some(-places)) IN
         IF p.tag = "ValueError" THEN Outcome(NoValue, NoValue, ValueError)
         ELSE LET r == IntermediateForm_round(p, -places, mode) IN
              Outcome(p, r, to_type_of(value, r))

\* round_to_figures that keeps the exponent of a zero as the pre-rounded
\* value has it.
round_to_figures_ZeroKeepsExponent(value, figures, mode) ==
    IF figures <= 0 THEN Outcome(NoValue, NoValue, ValueError)
    ELSE IF ~is_finite(value) THEN Outcome(NoValue, NoValue, value)
    ELSE LET p == preround(value,
                           IF is_zero(value) THEN None
                           ELSE Some(decade(value).value + 1 - figures))
         IN
         IF p.tag = "ValueError" THEN Outcome(NoValue, NoValue, ValueError)
         ELSE IF ~is_zero(value) /\ IntermediateForm_is_zero(p)
         THEN Outcome(p, NoValue, ValueError)
         ELSE LET exponent == IF is_zero(value) THEN p.exponent
                              ELSE IntermediateForm_decade(p) + 1 - figures
                  r == IntermediateForm_round(p, exponent, mode)
                  n == IntermediateForm_nudge(r, figures)
              IN  IF n.tag = "ValueError" THEN Outcome(p, r, ValueError)
                  ELSE Outcome(p, r, to_type_of(value, n))

\* round_to_figures that rounds one digit too far to the right.
round_to_figures_OffByOne(value, figures, mode) ==
    IF figures <= 0 THEN Outcome(NoValue, NoValue, ValueError)
    ELSE IF ~is_finite(value) THEN Outcome(NoValue, NoValue, value)
    ELSE LET p == preround(value,
                           IF is_zero(value) THEN None
                           ELSE Some(decade(value).value + 1 - figures))
         IN
         IF p.tag = "ValueError" THEN Outcome(NoValue, NoValue, ValueError)
         ELSE IF ~is_zero(value) /\ IntermediateForm_is_zero(p)
         THEN Outcome(p, NoValue, ValueError)
         ELSE LET exponent == (IF is_zero(value) THEN 0
                               ELSE IntermediateForm_decade(p)) - figures
                  r == IntermediateForm_round(p, exponent, mode)
                  n == IntermediateForm_nudge(r, figures)
              IN  IF n.tag = "ValueError" THEN Outcome(p, r, ValueError)
                  ELSE Outcome(p, r, to_type_of(value, n))

\* round_to_figures that looks at `figures` only after the non-finite
\* values have been returned.
round_to_figures_FiniteCheckFirst(value, figures, mode) ==
    IF ~is_finite(value) THEN Outcome(NoValue, NoValue, value)
    ELSE IF figures <= 0 THEN Outcome(NoValue, NoValue, ValueError)
    ELSE LET p == preround(value,
                           IF is_zero(value) THEN None
                           ELSE Some(decade(value).value + 1 - figures))
         IN
         IF p.tag = "ValueError" THEN Outcome(NoValue, NoValue, ValueError)
         ELSE IF ~is_zero(value) /\ IntermediateForm_is_zero(p)
         THEN Outcome(p, NoValue, ValueError)
         ELSE LET exponent == (IF is_zero(value) THEN 0
                               ELSE IntermediateForm_decade(p)) + 1 - figures
                  r == IntermediateForm_round(p, exponent, mode)
                  n == IntermediateForm_nudge(r, figures)
              IN  IF n.tag = "ValueError" THEN Outcome(p, r, ValueError)
                  ELSE Outcome(p, r, to_type_of(value, n))

round_to_figures(value, figures, mode) ==
    IF figures <= 0 THEN Outcome(NoValue, NoValue, ValueError)
    ELSE IF ~is_finite(value) THEN Outcome(NoValue, NoValue, value)
    ELSE LET p == preround(value,
                           IF is_zero(value) THEN None
                           ELSE Some(decade(value).value + 1 - figures))
         IN
         IF p.tag = "ValueError" THEN Outcome(NoValue, NoValue, ValueError)
         ELSE IF ~is_zero(value) /\ IntermediateForm_is_zero(p)
         THEN Outcome(p, NoValue, ValueError)
         ELSE LET exponent == (IF is_zero(value) THEN 0
                               ELSE IntermediateForm_decade(p)) + 1 - figures
                  r == IntermediateForm_round(p, exponent, mode)
                  n == IntermediateForm_nudge(r, figures)
              IN  IF n.tag = "ValueError" THEN Outcome(p, r, ValueError)
                  ELSE Outcome(p, r, to_type_of(value, n))

\* round_to_figures that takes the target exponent from the decade it was
\* given, not from the decade of the pre-rounded value.
round_to_figures_with_decade_NoRecompute(value, figures, mode, d) ==
    IF figures <= 0 THEN Outcome(NoValue, NoValue, ValueError)
    ELSE IF ~is_finite(value) THEN Outcome(NoValue, NoValue, value)
    ELSE LET p == preround(value,
                           IF is_zero(value) THEN None
                           ELSE Some(d + 1 - figures))
         IN
         IF p.tag = "ValueError" THEN Outcome(NoValue, NoValue, ValueError)
         ELSE IF ~is_zero(value) /\ IntermediateForm_is_zero(p)
         THEN Outcome(p, NoValue, ValueError)
         ELSE LET exponent == (IF is_zero(value) THEN 0 ELSE d) + 1 - figures
                  r == IntermediateForm_round(p, exponent, mode)
                  n == IntermediateForm_nudge(r, figures)
              IN  IF n.tag = "ValueError" THEN Outcome(p, r, ValueError)
                  ELSE Outcome(p, r, to_type_of(value, n))

\* round_to_figures for a value whose decade overload returns d: decade is
\* a generic function, and the overload of a type may return a lower bound.
round_to_figures_with_decade(value, figures, mode, d) ==
    IF figures <= 0 THEN Outcome(NoValue, NoValue, ValueError)
    ELSE IF ~is_finite(value) THEN Outcome(NoValue, NoValue, value)
    ELSE LET p == preround(value,
                           IF is_zero(value) THEN None
                           ELSE Some(d + 1 - figures))
         IN
         IF p.tag = "ValueError" THEN Outcome(NoValue, NoValue, ValueError)
         ELSE IF ~is_zero(value) /\ IntermediateForm_is_zero(p)
         THEN Outcome(p, NoValue, ValueError)
         ELSE LET exponent == (IF is_zero(value) THEN 0
                               ELSE IntermediateForm_decade(p)) + 1 - figures
                  r == IntermediateForm_round(p, exponent, mode)
                  n == IntermediateForm_nudge(r, figures)
              IN  IF n.tag = "ValueError" THEN Outcome(p, r, ValueError)
                  ELSE Outcome(p, r, to_type_of(value, n))

(***************************************************************************)
(* rounders/format.py                                                      *)
(***************************************************************************)
TargetFormat(minimum_exponent, maximum_figures, signed_zero) ==
    [minimum_exponent |-> minimum_exponent,
     maximum_figures |-> maximum_figures,
     signed_zero |-> signed_zero]

\* TargetFormat.minimum_exponent_for_decade taking the smaller of the two
\* constraints when both are set.
minimum_exponent_for_decade_Min(self, d) ==
    IF self.minimum_exponent.is_none /\ self.maximum_figures.is_none THEN None
    ELSE IF self.maximum_figures.is_none THEN self.minimum_exponent
    ELSE IF self.minimum_exponent.is_none
    THEN Some(d + 1 - self.maximum_figures.value)
    ELSE Some(IF self.minimum_exponent.value
                   <= d + 1 - self.maximum_figures.value
              THEN self.minimum_exponent.value
              ELSE d + 1 - self.maximum_figures.value)

\* TargetFormat.minimum_exponent_for_decade: max(exponents, default=None)
minimum_exponent_for_decade(self, d) ==
    IF self.minimum_exponent.is_none /\ self.maximum_figures.is_none THEN None
    ELSE IF self.maximum_figures.is_none THEN self.minimum_exponent
    ELSE IF self.minimum_exponent.is_none
    THEN Some(d + 1 - self.maximum_figures.value)
    ELSE Some(Max(self.minimum_exponent.value,
                  d + 1 - self.maximum_figures.value))

round_for_format(value, format, mode, zero_exponent) ==
    IF ~is_zero(value) /\ decade(value).tag = "ValueError"
    THEN Outcome(NoValue, NoValue, ValueError)
    ELSE
    LET exponent ==
            IF is_zero(value) THEN None
            ELSE minimum_exponent_for_decade(format, decade(value).value)
        p == preround(value, exponent)
    IN
    IF p.tag = "ValueError" THEN Outcome(NoValue, NoValue, ValueError)
    ELSE
    LET target_exponent ==
            IF IntermediateForm_is_zero(p) THEN zero_exponent
            ELSE minimum_exponent_for_decade(format, IntermediateForm_decade(p))
        r == IF target_exponent.is_none THEN p
             ELSE IntermediateForm_round(p, target_exponent.value, mode)
        u == IF format.signed_zero THEN r
             ELSE IntermediateForm_force_unsigned_zero(r)
        n == IF format.maximum_figures.is_none THEN u
             ELSE IntermediateForm_nudge(u, format.maximum_figures.value)
    IN  Outcome(p, u, n)

\* round_for_format for a value whose decade overload returns d.
round_for_format_with_decade(value, format, mode, zero_exponent, d) ==
    LET exponent ==
            IF is_zero(value) THEN None
            ELSE minimum_exponent_for_decade(format, d)
        p == preround(value, exponent)
    IN
    IF p.tag = "ValueError" THEN Outcome(NoValue, NoValue, ValueError)
    ELSE
    LET target_exponent ==
            IF IntermediateForm_is_zero(p) THEN zero_exponent
            ELSE minimum_exponent_for_decade(format, IntermediateForm_decade(p))
        r == IF target_exponent.is_none THEN p
             ELSE IntermediateForm_round(p, target_exponent.value, mode)
        u == IF format.signed_zero THEN r
             ELSE IntermediateForm_force_unsigned_zero(r)
        n == IF format.maximum_figures.is_none THEN u
             ELSE IntermediateForm_nudge(u, format.maximum_figures.value)
    IN  Outcome(p, u, n)

\* FormatSpecification.zero_exponent, for the target format of a
\* specification: places is -minimum_exponent, figures is maximum_figures.
zero_exponent_of(format) ==
    IF format.minimum_exponent.is_none /\ format.maximum_figures.is_none
    THEN None
    ELSE IF format.maximum_figures.is_none THEN format.minimum_exponent
    ELSE IF format.minimum_exponent.is_none
    THEN Some(1 - format.maximum_figures.value)
    ELSE Some(Max(format.minimum_exponent.value,
                  1 - format.maximum_figures.value))

\* TargetFormat.__contains__
TargetFormat_contains(self, value) ==
    /\ self.minimum_exponent.is_none
         \/ value.exponent >= self.minimum_exponent.value
    /\ self.maximum_figures.is_none
         \/ IntermediateForm_figures(value) <= self.maximum_figures.value
    /\ self.signed_zero \/ value.sign = 0 \/ value.significand # 0

\* A Python str, as the sequence of its characters.
PyStr(chars) == [tag |-> "str", value |-> chars]

AssertionError == [tag |-> "AssertionError"]

DigitChars == <<"0", "1", "2", "3", "4", "5", "6", "7", "8", "9">>

\* str(n) for an int n, as characters.
str_int(n) ==
    LET ds == str(Abs(n))
        cs == [i \in 1..Len(ds) |-> DigitChars[ds[i] + 1]]
    IN  IF n < 0 THEN <<"-">> \o cs ELSE cs

\* c * k for a one-character string c: empty when k <= 0.
Repeat(c, k) == [i \in 1..(IF k > 0 THEN k ELSE 0) |-> c]

\* s[:k] and s[k:] with Python's treatment of negative and large k.
SliceIndex(s, k) ==
    IF k < 0 THEN Max(Len(s) + k, 0)
    ELSE IF k > Len(s) THEN Len(s) ELSE k

SliceTo(s, k) == SubSeq(s, 1, SliceIndex(s, k))

SliceFrom(s, k) == SubSeq(s, SliceIndex(s, k) + 1, Len(s))

\* The groups of a match of _PATTERN: sign is "", "-", "+" or " " ("" when
\* the group is absent), mode is a rounding mode or None when absent, type
\* is "e" or "f".
Pattern(sign, no_neg_0, alt, precision, mode, type) ==
    [sign |-> sign, no_neg_0 |-> no_neg_0, alt |-> alt,
     precision |-> precision, mode |-> mode, type |-> type]

\* FormatSpecification.from_string, from the groups of the match; the
\* fields that no pattern changes keep the defaults of the dataclass.
FormatSpecification_from_string(match) ==
    [round_type |-> match.type,
     rounding_mode |->
        IF match.mode = None THEN TIES_TO_EVEN ELSE match.mode,
     places |-> IF match.type = "f" THEN Some(match.precision) ELSE None,
     figures |-> IF match.type = "f" THEN None
                 ELSE Some(match.precision + 1),
     signed_zero |-> ~match.no_neg_0,
     scientific |-> match.type = "e",
     always_include_point |-> match.alt,
     min_digits_before_point |-> 1,
     min_digits_after_point |-> 0,
     zero |-> "0",
     decimal_separator |-> ".",
     e |-> "e",
     negative_sign |-> "-",
     positive_sign |-> IF match.sign \in {"+", " "} THEN match.sign ELSE "",
     exponent_for_zero |->
        IF match.type = "f" THEN -match.precision ELSE 0]

\* FormatSpecification.target_format
FormatSpecification_target_format(self) ==
    TargetFormat(IF self.places.is_none THEN None
                 ELSE Some(-self.places.value),
                 self.figures,
                 self.signed_zero)

\* FormatSpecification.zero_exponent
FormatSpecification_zero_exponent(self) ==
    IF self.places.is_none /\ self.figures.is_none THEN None
    ELSE IF self.figures.is_none THEN Some(-self.places.value)
    ELSE IF self.places.is_none THEN Some(1 - self.figures.value)
    ELSE Some(Max(-self.places.value, 1 - self.figures.value))

\* FormatSpecification.format
FormatSpecification_format(self, r) ==
    LET digits0 == IF r.significand # 0 THEN str_int(r.significand) ELSE <<>>
        use_exponent == self.scientific
        e_exponent == IF use_exponent /\ r.significand # 0
                      THEN r.exponent + Len(digits0) - 1
                      ELSE 0
        end_exponent0 == r.exponent - e_exponent
        start_exponent0 == end_exponent0 + Len(digits0)
        pad_before == start_exponent0 < self.min_digits_before_point
        digits1 == IF pad_before
                   THEN Repeat(self.zero,
                               self.min_digits_before_point - start_exponent0)
                          \o digits0
                   ELSE digits0
        start_exponent == IF pad_before THEN self.min_digits_before_point
                          ELSE start_exponent0
        pad_after == end_exponent0 > -self.min_digits_after_point
        digits == IF pad_after
                  THEN digits1
                         \o Repeat(self.zero,
                                   end_exponent0 + self.min_digits_after_point)
                  ELSE digits1
        sign_str == IF r.sign # 0 THEN self.negative_sign
                    ELSE self.positive_sign
        before_point == SliceTo(digits, start_exponent)
        after_point == SliceFrom(digits, start_exponent)
        point == IF Len(after_point) > 0 \/ self.always_include_point
                 THEN <<self.decimal_separator>> ELSE <<>>
        exponent == IF use_exponent THEN <<self.e>> \o str_int(e_exponent)
                    ELSE <<>>
    IN  IF ~use_exponent /\ e_exponent # 0 THEN AssertionError
        ELSE PyStr((IF sign_str = "" THEN <<>> ELSE <<sign_str>>)
                     \o before_point \o point \o after_point \o exponent)

\* rounders.format.format(value, pattern), from the groups of the pattern's
\* match.  The local `rounded` is what round_for_format returned; it is
\* bound as `out`, so that the rounding is computed once.
rounders_format(value, match) ==
    LET format_specification == FormatSpecification_from_string(match)
        target_format == FormatSpecification_target_format(format_specification)
        rounded_for_format ==
            round_for_format(
                value, target_format,
                format_specification.rounding_mode,
                FormatSpecification_zero_exponent(format_specification))
    IN  CHOOSE returned \in
            {IF out.result.tag = "ValueError"
             THEN Outcome(out.prerounded, NoValue, ValueError)
             ELSE IF ~TargetFormat_contains(target_format, out.result)
             THEN Outcome(out.prerounded, out.result, AssertionError)
             ELSE Outcome(out.prerounded, out.result,
                          FormatSpecification_format(format_specification,
                                                     out.result)) :
                out \in {rounded_for_format}} : TRUE

(***************************************************************************)
(* The values and arguments that the calls are made with.                  *)
(***************************************************************************)
Signs == {0, 1}

\* The arguments of from_signed_fraction, valid or not.
SignedFraction(sign, numerator, denominator) ==
    [tag |-> "SignedFraction", sign |-> sign,
     numerator |-> numerator, denominator |-> denominator]

SignedFractions ==
    {SignedFraction(s, n, d) :
        s \in Signs, n \in -1..MaxNumerator, d \in 0..MaxDenominator}

Fractions ==
    {Fraction(n, d) : n \in -MaxNumerator..MaxNumerator, d \in 1..MaxDenominator}

Decimals ==
    {Decimal("finite", s, c, e) :
        s \in Signs, c \in 0..MaxSignificand, e \in -MaxExponent..MaxExponent}
    \cup {Decimal("inf", 0, 0, 0), Decimal("inf", 1, 0, 0),
          Decimal("nan", 0, 0, 0)}

IntermediateForms ==
    {IntermediateForm(s, c, e) :
        s \in Signs, c \in 0..MaxSignificand, e \in -MaxExponent..MaxExponent}

\* Fractions with numerators and denominators of up to three digits, for
\* the calls of decade.
WideFractions ==
    {Fraction(n, d) :
        n \in -MaxWideNumerator..MaxWideNumerator, d \in 1..MaxWideDenominator}

Numbers == Fractions \cup Decimals

\* The values that the rounding functions are called with: a member of
\* Numbers, told by its fields.
IsNumber(v) ==
    \/ v.tag = "Decimal"
    \/ /\ v.tag = "Fraction"
       /\ Abs(v.numerator) <= MaxNumerator
       /\ v.denominator <= MaxDenominator

Inputs ==
    SignedFractions \cup Numbers \cup WideFractions \cup IntermediateForms

TargetExponents == -MaxTarget..MaxTarget

OptionalOf(S) == {None} \cup {Some(n) : n \in S}

TargetFormats ==
    {TargetFormat(m, f, z) :
        m \in OptionalOf(-MaxMinimumExponent..MaxMinimumExponent),
        f \in OptionalOf(1..MaxFigures),
        z \in BOOLEAN}

\* The zero_exponent argument is read only when the pre-rounded value is
\* zero; for the other inputs it is what format() passes.
ZeroExponents(value, format) ==
    IF is_zero(value)
    THEN OptionalOf(-MaxMinimumExponent..MaxMinimumExponent)
    ELSE {zero_exponent_of(format)}

\* The precisions written in patterns: places for type f, one less than
\* the figures for type e (a pattern may carry a negative precision).
Precisions == -MaxTarget..(MaxFigures - 1)

\* The sign and alternate-form flags of the patterns: <<sign, alt>>.
PatternFlags == {<<"", FALSE>>, <<"+", TRUE>>, <<" ", FALSE>>}

\* The rounding modes written in patterns: none (the default, ties to
\* even), a to-nearest mode, a directed mode and the re-rounding mode.
PatternModes == {None, TIES_TO_AWAY, TO_ZERO, TO_ZERO_05_AWAY}

\* The matches of _PATTERN that the patterns are drawn from.
Patterns ==
    {Pattern(fl[1], z, fl[2], precision, mode, type) :
        fl \in PatternFlags, z \in BOOLEAN, precision \in Precisions,
        mode \in PatternModes, type \in {"e", "f"}}

(***************************************************************************)
(* The state machine.                                                      *)
(***************************************************************************)
Init ==
    /\ input \in Inputs
    /\ op = "none"
    /\ args = NoValue
    /\ prerounded = NoValue
    /\ rounded = NoValue
    /\ result = NoValue

\* IntermediateForm.from_signed_fraction(sign=, numerator=, denominator=,
\* exponent=)
FromSignedFraction ==
    /\ op = "none"
    /\ input.tag = "SignedFraction"
    /\ \E exponent \in OptionalOf(-MaxTarget - 1..MaxTarget) :
        /\ op' = "from_signed_fraction"
        /\ args' = [exponent |-> exponent]
        /\ result' = from_signed_fraction(input.sign, input.numerator,
                                          input.denominator, exponent)
    /\ UNCHANGED <<input, prerounded, rounded>>

\* input.round(exponent, mode)
Round ==
    /\ op = "none"
    /\ input.tag = "IntermediateForm"
    /\ \E exponent \in TargetExponents, mode \in Modes :
        /\ op' = "round"
        /\ args' = [exponent |-> exponent, mode |-> mode]
        /\ result' = IntermediateForm_round(input, exponent, mode)
    /\ UNCHANGED <<input, prerounded, rounded>>

\* input.nudge(figures)
Nudge ==
    /\ op = "none"
    /\ input.tag = "IntermediateForm"
    /\ \E figures \in 1..MaxFigures :
        /\ op' = "nudge"
        /\ args' = [figures |-> figures]
        /\ result' = IntermediateForm_nudge(input, figures)
    /\ UNCHANGED <<input, prerounded, rounded>>

\* preround(input, exponent)
Preround ==
    /\ op = "none"
    /\ IsNumber(input)
    /\ \E exponent \in OptionalOf(TargetExponents) :
        /\ op' = "preround"
        /\ args' = [exponent |-> exponent]
        /\ result' = preround(input, exponent)
    /\ UNCHANGED <<input, prerounded, rounded>>

\* round_to_int(input, mode=mode)
RoundToInt ==
    /\ op = "none"
    /\ IsNumber(input)
    /\ \E mode \in Modes :
        LET out == round_to_int(input, mode) IN
        /\ op' = "round_to_int"
        /\ args' = [mode |-> mode]
        /\ prerounded' = out.prerounded
        /\ rounded' = out.rounded
        /\ result' = out.result
    /\ UNCHANGED input

\* round_to_places(input, places, mode=mode)
RoundToPlaces ==
    /\ op = "none"
    /\ IsNumber(input)
    /\ \E places \in TargetExponents, mode \in Modes :
        LET out == round_to_places(input, places, mode) IN
        /\ op' = "round_to_places"
        /\ args' = [places |-> places, mode |-> mode]
        /\ prerounded' = out.prerounded
        /\ rounded' = out.rounded
        /\ result' = out.result
    /\ UNCHANGED input

\* round_to_figures(input, figures, mode=mode)
RoundToFigures ==
    /\ op = "none"
    /\ IsNumber(input)
    /\ \E figures \in -1..MaxFigures, mode \in Modes :
        LET out == round_to_figures(input, figures, mode) IN
        /\ op' = "round_to_figures"
        /\ args' = [figures |-> figures, mode |-> mode]
        /\ prerounded' = out.prerounded
        /\ rounded' = out.rounded
        /\ result' = out.result
    /\ UNCHANGED input

\* round_for_format(input, format=format, mode=mode,
\* zero_exponent=zero_exponent)
RoundForFormat ==
    /\ op = "none"
    /\ IsNumber(input)
    /\ \E format \in TargetFormats, mode \in Modes :
       \E zero_exponent \in ZeroExponents(input, format) :
        LET out == round_for_format(input, format, mode, zero_exponent) IN
        /\ op' = "round_for_format"
        /\ args' = [format |-> format, mode |-> mode,
                    zero_exponent |-> zero_exponent]
        /\ prerounded' = out.prerounded
        /\ rounded' = out.rounded
        /\ result' = out.result
    /\ UNCHANGED input

\* decade(input), and input.decade for an IntermediateForm
Decade ==
    /\ op = "none"
    /\ input.tag \in {"Fraction", "Decimal", "IntermediateForm"}
    /\ op' = "decade"
    /\ args' = NoValue
    /\ result' = IF input.tag # "IntermediateForm" THEN decade(input)
                 ELSE IF input.significand = 0 THEN ValueError
                 ELSE PyInt(IntermediateForm_decade(input))
    /\ UNCHANGED <<input, prerounded, rounded>>

\* format(input, pattern)
Format ==
    /\ op = "none"
    /\ IsNumber(input)
    /\ \E pattern \in Patterns :
       \E out \in {rounders_format(input, pattern)} :
        /\ op' = "format"
        /\ args' = [pattern |-> pattern]
        /\ prerounded' = out.prerounded
        /\ rounded' = out.rounded
        /\ result' = out.result
    /\ UNCHANGED input

\* mode.round(input.sign, input.significand, tenths): the call that
\* IntermediateForm.round makes with the kept digits and the rounding digit.
ModeRound ==
    /\ op = "none"
    /\ input.tag = "IntermediateForm"
    /\ \E mode \in Modes, tenths \in 0..9 :
        /\ op' = "mode_round"
        /\ args' = [mode |-> mode, tenths |-> tenths]
        /\ result' = PyInt(RoundingMode_round(mode, input.sign,
                                              input.significand, tenths))
    /\ UNCHANGED <<input, prerounded, rounded>>

Next ==
    \/ FromSignedFraction
    \/ Round
    \/ Nudge
    \/ Preround
    \/ RoundToInt
    \/ RoundToPlaces
    \/ RoundToFigures
    \/ RoundForFormat
    \/ Format
    \/ Decade
    \/ ModeRound

Spec == Init /\ [][Next]_vars

\* The calls are independent of one another, and a property of the calls of
\* some entry points is checked over the behaviours that make those calls.

\* The calls of everything below round_for_format.
NextRounding ==
    \/ FromSignedFraction
    \/ Round
    \/ Nudge
    \/ Preround
    \/ Decade
    \/ RoundToInt
    \/ RoundToPlaces
    \/ RoundToFigures

SpecRounding == Init /\ [][NextRounding]_vars

\* The calls of the functions that return a value of the type passed in or
\* an IntermediateForm for it.
NextRoundForFormat ==
    \/ RoundToPlaces
    \/ RoundToFigures
    \/ RoundForFormat

SpecRoundForFormat == Init /\ [][NextRoundForFormat]_vars

\* The calls of format.
NextFormat == Format

SpecFormat == Init /\ [][NextFormat]_vars

\* The calls that take the decade of their argument before they pre-round.
NextDecadeUse ==
    \/ RoundToFigures
    \/ RoundForFormat

SpecDecadeUse == Init /\ [][NextDecadeUse]_vars

\* The calls of round_for_format alone.
NextTargetFormat == RoundForFormat

SpecTargetFormat == Init /\ [][NextTargetFormat]_vars

\* The calls of the rounding modes.
NextModes == ModeRound

SpecModes == Init /\ [][NextModes]_vars

\* The calls of IntermediateForm.round alone.
NextRound == Round

SpecRound == Init /\ [][NextRound]_vars

(***************************************************************************)
(* Exact arithmetic used to state the properties.                          *)
(***************************************************************************)
\* The sign bit of a value: 1 for negative (and for a negative zero).
SignOf(v) ==
    IF v.tag = "Fraction" THEN (IF v.numerator < 0 THEN 1 ELSE 0)
    ELSE IF v.tag = "int" THEN (IF v.value < 0 THEN 1 ELSE 0)
    ELSE v.sign

\* |v| / 10**e as an exact quotient n / d of naturals, d > 0.
Scaled(v, e) ==
    IF v.tag \in {"Fraction", "SignedFraction"} THEN
        [n |-> Abs(v.numerator) * (IF e <= 0 THEN 10 ^ (-e) ELSE 1),
         d |-> v.denominator * (IF e <= 0 THEN 1 ELSE 10 ^ e)]
    ELSE IF v.tag = "int" THEN
        [n |-> Abs(v.value) * (IF e <= 0 THEN 10 ^ (-e) ELSE 1),
         d |-> IF e <= 0 THEN 1 ELSE 10 ^ e]
    ELSE
        [n |-> v.significand
                 * (IF v.exponent >= e THEN 10 ^ (v.exponent - e) ELSE 1),
         d |-> IF v.exponent >= e THEN 1 ELSE 10 ^ (e - v.exponent)]

Signed(sign, n) == IF sign # 0 THEN -n ELSE n

\* The numerator of |r - v| / 10**e over the denominator DistDen(v, r, e).
DistNum(v, r, e) ==
    LET V == Scaled(v, e)
        R == Scaled(r, e)
    IN  Abs(Signed(SignOf(r), R.n) * V.d - Signed(SignOf(v), V.n) * R.d)

DistDen(v, r, e) == Scaled(v, e).d * Scaled(r, e).d

\* floor(|v| / 10**e) and whether anything is left over.
FloorOf(v, e) == Scaled(v, e).n \div Scaled(v, e).d

IsMultiple(v, e) == Scaled(v, e).n % Scaled(v, e).d = 0

\* |v| is exactly halfway between two adjacent multiples of 10**e.
IsHalfway(v, e) == 2 * (Scaled(v, e).n % Scaled(v, e).d) = Scaled(v, e).d

\* Which of floor and floor + 1 a rule picks for a value strictly between.
PickZero(sign, fl) == fl
PickAway(sign, fl) == fl + 1
PickMinus(sign, fl) == IF sign # 0 THEN fl + 1 ELSE fl
PickPlus(sign, fl) == IF sign # 0 THEN fl ELSE fl + 1
PickEven(sign, fl) == IF fl % 2 = 0 THEN fl ELSE fl + 1
PickOdd(sign, fl) == IF fl % 2 = 1 THEN fl ELSE fl + 1

Pick(mode, sign, fl) ==
    CASE mode \in {TO_ZERO, TIES_TO_ZERO} -> PickZero(sign, fl)
      [] mode \in {TO_AWAY, TIES_TO_AWAY} -> PickAway(sign, fl)
      [] mode \in {TO_MINUS, TIES_TO_MINUS} -> PickMinus(sign, fl)
      [] mode \in {TO_PLUS, TIES_TO_PLUS} -> PickPlus(sign, fl)
      [] mode \in {TO_EVEN, TIES_TO_EVEN} -> PickEven(sign, fl)
      [] mode \in {TO_ODD, TIES_TO_ODD} -> PickOdd(sign, fl)

\* The exact value v rounded directly to a multiple of 10**e, from the
\* definitions of the modes: the directed modes as floor / ceil, the
\* to-nearest modes as the nearest multiple with the directed rule on ties,
\* and to-zero-05-away as to-zero unless that ends in 0 or 5.
DirectRound(v, e, mode) ==
    LET V == Scaled(v, e)
        fl == V.n \div V.d
        rem == V.n % V.d
        significand ==
            IF rem = 0 THEN fl
            ELSE IF mode = TO_ZERO_05_AWAY
            THEN (IF fl % 10 \in {0, 5} THEN fl + 1 ELSE fl)
            ELSE IF mode \in DirectedModes THEN Pick(mode, SignOf(v), fl)
            ELSE IF 2 * rem < V.d THEN fl
            ELSE IF 2 * rem > V.d THEN fl + 1
            ELSE Pick(mode, SignOf(v), fl)
    IN  IntermediateForm(SignOf(v), significand, e)

\* A call that rounded `input` to a multiple of 10**RoundedTo and left the
\* rounded value in IntermediateFormOut.
IsRoundingCall ==
    \/ op = "round"
    \/ op \in {"round_to_int", "round_to_places"}
         /\ rounded.tag = "IntermediateForm"

RoundedTo ==
    IF op = "round" THEN args.exponent
    ELSE IF op = "round_to_places" THEN -args.places
    ELSE 0

\* The IntermediateForm the call rounded to.
RoundedForm == IF op = "round" THEN result ELSE rounded

(***************************************************************************)
(* Properties.                                                             *)
(***************************************************************************)
\* C1: round-for-reround correctness of preround.  For every Fraction x,
\* all exponents e1 <= e2 and each of the 13 modes,
\* preround(x, e1).round(e2, mode) is x rounded directly to exponent e2
\* with that mode: same sign, significand and exponent.
C1_PreroundThenRoundIsDirect ==
    (op = "preround" /\ input.tag = "Fraction" /\ ~args.exponent.is_none)
    => /\ result.tag = "IntermediateForm"
       /\ \A e2 \in TargetExponents, mode \in Modes :
            e2 >= args.exponent.value
            => IntermediateForm_round(result, e2, mode)
                 = DirectRound(input, e2, mode)

\* 21/4 = 5.25 pre-rounded for exponent 1 is 6 (5 has been moved off the
\* tie digit), so that ties-to-even to tens gives 10 as for 5.25 itself.
C1_Witness ==
    /\ op = "preround"
    /\ input = Fraction(21, 4)
    /\ args.exponent = Some(1)
    /\ result = IntermediateForm(0, 6, 0)
    /\ IntermediateForm_round(result, 1, TIES_TO_EVEN)
         = IntermediateForm(0, 1, 1)

\* C2: for every sign, numerator >= 0, denominator > 0 and exponent e,
\* y = from_signed_fraction(sign, numerator, denominator, e) rounds to any
\* coarser exponent e' > e, with any of the 13 modes, to what the exact
\* fraction rounds to directly.
C2_FromSignedFractionSafeToReround ==
    (/\ op = "from_signed_fraction"
     /\ input.numerator >= 0
     /\ input.denominator > 0
     /\ ~args.exponent.is_none)
    => /\ result.tag = "IntermediateForm"
       /\ \A e \in (args.exponent.value + 1)..(MaxTarget + 1), mode \in Modes :
            IntermediateForm_round(result, e, mode)
              = DirectRound(input, e, mode)

\* -1/3 at exponent 0 becomes -1 (not -0), which to-away then rounds to -10.
C2_Witness ==
    /\ op = "from_signed_fraction"
    /\ input = SignedFraction(1, 1, 3)
    /\ args.exponent = Some(0)
    /\ result = IntermediateForm(1, 1, 0)
    /\ IntermediateForm_round(result, 1, TO_AWAY) = IntermediateForm(1, 1, 1)
    /\ IntermediateForm_round(result, 1, TIES_TO_AWAY)
         = IntermediateForm(1, 0, 1)

\* C3: nearest-property.  With each of the six to-nearest modes the
\* rounded result r of a value x at exponent e has |r - x| <= 10**e / 2,
\* exactly; for round_to_int, |round(x) - x| <= 1/2.
C3_NearestProperty ==
    (IsRoundingCall /\ args.mode \in ToNearestModes)
    => /\ 2 * DistNum(input, result, RoundedTo)
            <= DistDen(input, result, RoundedTo)
       /\ 2 * DistNum(input, RoundedForm, RoundedTo)
            <= DistDen(input, RoundedForm, RoundedTo)

\* 7/8 rounded to an integer with a to-nearest mode gives 1, 1/8 away.
C3_Witness ==
    /\ op = "round_to_int"
    /\ input = Fraction(7, 8)
    /\ args.mode \in ToNearestModes
    /\ result = PyInt(1)
    /\ DistNum(input, result, 0) = 1
    /\ DistDen(input, result, 0) = 8

\* C4: neighbour-property.  With each of the twelve to-nearest and
\* directed modes the rounded result r of a value x at exponent e has
\* |r - x| < 10**e, strictly; for round_to_int, |round(x) - x| < 1.
C4_NeighbourProperty ==
    (IsRoundingCall /\ args.mode \in ToNearestModes \cup DirectedModes)
    => /\ DistNum(input, result, RoundedTo) < DistDen(input, result, RoundedTo)
       /\ DistNum(input, RoundedForm, RoundedTo)
            < DistDen(input, RoundedForm, RoundedTo)

\* -1/8 rounded to an integer away from zero gives -1, at distance 7/8.
C4_Witness ==
    /\ op = "round_to_int"
    /\ input = Fraction(-1, 8)
    /\ args.mode = TO_AWAY
    /\ result = PyInt(-1)
    /\ DistNum(input, result, 0) = 7
    /\ DistDen(input, result, 0) = 8

\* C5: tie resolution.  A value exactly halfway between two adjacent
\* multiples of 10**e, of either sign, goes with ties-to-even to the
\* neighbour with an even last digit, with ties-to-odd to the odd one, with
\* ties-to-away to the larger magnitude, with ties-to-zero to the smaller
\* magnitude, with ties-to-plus to the algebraically larger neighbour and
\* with ties-to-minus to the algebraically smaller one.
C5_TieResolution ==
    (/\ IsRoundingCall
     /\ args.mode \in ToNearestModes
     /\ IsHalfway(input, RoundedTo))
    => LET fl == FloorOf(input, RoundedTo)
           sign == SignOf(input)
           r == RoundedForm
           s == r.significand
       IN  /\ r.sign = sign
           /\ r.exponent = RoundedTo
           /\ s \in {fl, fl + 1}
           /\ DistNum(r, result, RoundedTo) = 0
           /\ args.mode = TIES_TO_EVEN => s % 2 = 0
           /\ args.mode = TIES_TO_ODD => s % 2 = 1
           /\ args.mode = TIES_TO_AWAY => s = fl + 1
           /\ args.mode = TIES_TO_ZERO => s = fl
           /\ args.mode = TIES_TO_PLUS => s = (IF sign = 0 THEN fl + 1 ELSE fl)
           /\ args.mode = TIES_TO_MINUS => s = (IF sign = 0 THEN fl ELSE fl + 1)

\* -5/2 with ties-to-plus gives -2, the larger of -3 and -2.
C5_Witness ==
    /\ op = "round_to_int"
    /\ input = Fraction(-5, 2)
    /\ IsHalfway(input, 0)
    /\ args.mode = TIES_TO_PLUS
    /\ result = PyInt(-2)

\* C6: directed modes.  A signed value that is not a multiple of 10**e
\* goes with to-zero to the neighbouring multiple of smaller magnitude,
\* with to-away to the one of larger magnitude, with to-minus to the
\* algebraically smaller one, with to-plus to the algebraically larger
\* one, with to-even to the neighbour with an even last digit and with
\* to-odd to the odd one, however small or large the discarded part is.
C6_DirectedModes ==
    (/\ IsRoundingCall
     /\ args.mode \in DirectedModes
     /\ ~IsMultiple(input, RoundedTo))
    => LET fl == FloorOf(input, RoundedTo)
           sign == SignOf(input)
           r == RoundedForm
           s == r.significand
       IN  /\ r.sign = sign
           /\ r.exponent = RoundedTo
           /\ s \in {fl, fl + 1}
           /\ DistNum(r, result, RoundedTo) = 0
           /\ args.mode = TO_ZERO => s = fl
           /\ args.mode = TO_AWAY => s = fl + 1
           /\ args.mode = TO_MINUS => s = (IF sign = 0 THEN fl ELSE fl + 1)
           /\ args.mode = TO_PLUS => s = (IF sign = 0 THEN fl + 1 ELSE fl)
           /\ args.mode = TO_EVEN => s % 2 = 0
           /\ args.mode = TO_ODD => s % 2 = 1

\* -10.4 to tens with to-minus: the discarded 0.4 is below one unit of the
\* rounding digit, and the result is still -20.
C6_Witness ==
    /\ op = "round"
    /\ input = IntermediateForm(1, 104, -1)
    /\ args.exponent = 1
    /\ args.mode = TO_MINUS
    /\ result = IntermediateForm(1, 2, 1)

\* C7: to-zero-05-away rounds the kept integer up if and only if the
\* discarded part is nonzero and the last digit of the kept integer is 0
\* or 5; otherwise the kept integer is returned, whatever the sign.
C7_ToZero05Away ==
    (IsRoundingCall /\ args.mode = TO_ZERO_05_AWAY)
    => LET fl == FloorOf(input, RoundedTo)
           r == RoundedForm
       IN  /\ r.sign = SignOf(input)
           /\ r.exponent = RoundedTo
           /\ DistNum(r, result, RoundedTo) = 0
           /\ r.significand =
                (IF ~IsMultiple(input, RoundedTo) /\ fl % 10 \in {0, 5}
                 THEN fl + 1 ELSE fl)

\* -5.2 becomes -6.
C7_Witness ==
    /\ op = "round_to_int"
    /\ input = Decimal("finite", 1, 52, -1)
    /\ args.mode = TO_ZERO_05_AWAY
    /\ result = PyInt(-6)

\* C8: idempotence.  An IntermediateForm that is a multiple of 10**e
\* rounds at exponent e to the same value and sign, with each of the 13
\* modes; and v.round(e, mode).round(e, mode) = v.round(e, mode).
C8_Idempotence ==
    (op = "round")
    => /\ IsMultiple(input, args.exponent)
            => /\ result.sign = input.sign
               /\ result.exponent = args.exponent
               /\ result.significand = FloorOf(input, args.exponent)
               /\ DistNum(input, result, args.exponent) = 0
       /\ IntermediateForm_round(result, args.exponent, args.mode) = result

\* -10.0 (100e-1) rounded to tens away from zero stays -10.
C8_Witness ==
    /\ op = "round"
    /\ input = IntermediateForm(1, 100, -1)
    /\ args.exponent = 1
    /\ args.mode = TO_AWAY
    /\ result = IntermediateForm(1, 1, 1)

\* C9: sign-of-zero preservation.  In round_to_places, round_to_figures
\* and round_for_format with signed_zero=True the rounded value has the
\* sign bit of the input, also when it is zero: a negative zero and a
\* negative value that rounds to zero give a negative zero.
C9_SignPreserved ==
    /\ (op \in {"round_to_places", "round_to_figures"}
          /\ rounded.tag = "IntermediateForm")
       => /\ rounded.sign = SignOf(input)
          /\ result.tag = "Decimal" => result.sign = input.sign
    /\ (op = "round_for_format" /\ args.format.signed_zero
          /\ result.tag = "IntermediateForm")
       => result.sign = SignOf(input)

\* -0.4 rounded to 0 places is -0; so is -1/4 in round_for_format.
C9_Witness ==
    \/ /\ op = "round_to_places"
       /\ input = Decimal("finite", 1, 4, -1)
       /\ args.places = 0
       /\ args.mode = TIES_TO_EVEN
       /\ result = Decimal("finite", 1, 0, 0)
    \/ /\ op = "round_for_format"
       /\ input = Fraction(-1, 4)
       /\ args.format = TargetFormat(Some(0), None, TRUE)
       /\ args.mode = TO_ZERO
       /\ result = IntermediateForm(1, 0, 0)

\* C10: decade-overflow correction.  For a nonzero finite x, figures >= 1
\* and any mode, what round_to_figures has after its round step has
\* `figures` digits, or figures + 1 digits the last of which is 0; nudge
\* does not raise and the final value has exactly `figures` digits.
C10_DecadeOverflow ==
    (/\ op = "round_to_figures"
     /\ args.figures >= 1
     /\ is_finite(input)
     /\ ~is_zero(input))
    => /\ rounded.tag = "IntermediateForm"
       /\ IntermediateForm_figures(rounded)
            \in {args.figures, args.figures + 1}
       /\ IntermediateForm_figures(rounded) = args.figures + 1
            => rounded.significand % 10 = 0
       /\ result.tag # "ValueError"
       /\ IntermediateForm_figures(IntermediateForm_nudge(rounded, args.figures))
            = args.figures
       /\ DistNum(rounded, result, rounded.exponent) = 0
       /\ result.tag = "Decimal"
            => Len(str(result.significand)) = args.figures

\* 9.6 to one figure is 10e0 after the round step, nudged to 1e1.
C10_Witness ==
    /\ op = "round_to_figures"
    /\ input = Decimal("finite", 0, 96, -1)
    /\ args.figures = 1
    /\ args.mode = TIES_TO_EVEN
    /\ rounded = IntermediateForm(0, 10, 0)
    /\ result = Decimal("finite", 0, 1, 1)

\* The decades that the values of the model can lie in.
DecadeRange == -5..6

\* The unique e with 10**e <= |v| < 10**(e + 1), for v nonzero, from the
\* exact quotients.
ExactDecade(v) ==
    CHOOSE e \in DecadeRange :
        /\ Scaled(v, e).n >= Scaled(v, e).d
        /\ Scaled(v, e + 1).n < Scaled(v, e + 1).d

\* Two values are equal as numbers (a zero equals a zero of either sign).
SameValue(v, w) ==
    LET e == IF v.tag = "IntermediateForm" THEN v.exponent ELSE 0
    IN  DistNum(v, w, e) = 0

C12_FormatReceivesMemberOfTarget ==
    (op = "format" /\ is_finite(input))
    => LET p == args.pattern IN
       /\ result.tag # "AssertionError"
       /\ rounded.tag = "IntermediateForm"
            => /\ p.type = "f" => rounded.exponent >= -p.precision
               /\ p.type = "e"
                    => IntermediateForm_figures(rounded) <= p.precision + 1
               /\ p.no_neg_0 => ~(rounded.sign = 1 /\ rounded.significand = 0)

\* The call of round_for_format made with signed zeros allowed.
ReturnedFormSigned ==
    round_for_format(input, [args.format EXCEPT !.signed_zero = TRUE],
                     args.mode, args.zero_exponent).result

\* C13: when the target format suppresses signed zero (signed_zero=False,
\* which is what the flag z of a pattern sets), round_for_format never
\* returns a zero with sign 1: a negative zero and a negative nonzero value
\* that rounds to zero give sign 0, with the exponent they have when signed
\* zeros are allowed, and every nonzero result has the sign of the input.
C13_NoNegativeZero ==
    (/\ op = "round_for_format"
     /\ ~args.format.signed_zero
     /\ result.tag = "IntermediateForm")
    => LET signed == ReturnedFormSigned IN
       /\ result.significand = 0 => result.sign = 0
       /\ result.significand # 0 => result.sign = SignOf(input)
       /\ signed = IntermediateForm(SignOf(input), result.significand,
                                    result.exponent)

\* -1/4 to zero places, towards zero: 0e0 and not -0e0.
C13_Witness ==
    /\ op = "round_for_format"
    /\ input = Fraction(-1, 4)
    /\ args.format = TargetFormat(Some(0), None, FALSE)
    /\ args.mode = TO_ZERO
    /\ result = IntermediateForm(0, 0, 0)
    /\ ReturnedFormSigned = IntermediateForm(1, 0, 0)

\* An infinity or a NaN.
IsNonFinite(v) == v.tag = "Decimal" /\ v.special \in {"inf", "nan"}

\* C14: round_to_int raises ValueError for every infinity and NaN under
\* every mode; for every finite input the rounded intermediate value has
\* exponent 0, the conversion to int does not fail and an int is returned.
C14_RoundToIntErrors ==
    (op = "round_to_int")
    => /\ IsNonFinite(input) => result = ValueError
       /\ ~IsNonFinite(input)
            => /\ rounded.tag = "IntermediateForm"
               /\ rounded.exponent = 0
               /\ result.tag = "int"
               /\ result.value = Signed(rounded.sign, rounded.significand)

\* -Infinity rounded to an integer towards zero raises.
C14_Witness ==
    /\ op = "round_to_int"
    /\ input = Decimal("inf", 1, 0, 0)
    /\ args.mode = TO_ZERO
    /\ result = ValueError

\* C15: round_to_places, with any places and mode, and round_to_figures,
\* with any figures >= 1 and any mode, return an infinity or a NaN
\* unchanged and raise no error.
C15_NonFinitePassThrough ==
    (/\ \/ op = "round_to_places"
        \/ op = "round_to_figures" /\ args.figures >= 1
     /\ IsNonFinite(input))
    => result = input

\* NaN to one significant figure is NaN.
C15_Witness ==
    /\ op = "round_to_figures"
    /\ input = Decimal("nan", 0, 0, 0)
    /\ args.figures = 1
    /\ args.mode = TO_AWAY
    /\ result = Decimal("nan", 0, 0, 0)

\* C16: round_to_figures raises ValueError whenever figures <= 0, for
\* every input and mode; the check comes before the non-finite values are
\* passed through, so that an infinity or a NaN with figures <= 0 raises
\* too, and nothing has been rounded by then.
C16_NonPositiveFigures ==
    (op = "round_to_figures" /\ args.figures <= 0)
    => /\ result = ValueError
       /\ prerounded = NoValue
       /\ rounded = NoValue

\* Infinity to zero figures raises.
C16_Witness ==
    /\ op = "round_to_figures"
    /\ input = Decimal("inf", 0, 0, 0)
    /\ args.figures = 0
    /\ args.mode = TIES_TO_EVEN
    /\ result = ValueError

\* The exponents looked at to write a denominator as 2**a * 5**b.
MaxPrimeExponent == 4

\* d = 2**a * 5**b for some a, b >= 0.
IsTwoFivePower(d) ==
    \E a, b \in 0..MaxPrimeExponent : d = (2 ^ a) * (5 ^ b)

\* d has a prime factor other than 2 and 5.
HasOtherPrimeFactor(d) ==
    \E p \in 2..d :
        /\ p \notin {2, 5}
        /\ \A q \in 2..(p - 1) : p % q # 0
        /\ d % p = 0

\* A call from_signed_fraction(sign, numerator, denominator, None) with a
\* nonnegative numerator and a positive denominator.
IsExactConversion ==
    /\ op = "from_signed_fraction"
    /\ args.exponent.is_none
    /\ input.numerator >= 0
    /\ input.denominator > 0

\* C17, as claimed: from_signed_fraction with exponent=None succeeds if
\* and only if the denominator, after removing the factors it has in common
\* with the numerator, has the form 2**a * 5**b, and raises ValueError
\* otherwise.
C17_SucceedsIffReducedDenominator ==
    IsExactConversion
    => LET reduced ==
               input.denominator \div Gcd(input.numerator, input.denominator)
       IN  /\ result.tag \in {"IntermediateForm", "ValueError"}
           /\ result.tag = "IntermediateForm" <=> IsTwoFivePower(reduced)

\* C17, amended: from_signed_fraction with exponent=None succeeds if and
\* only if the denominator as it is passed has the form 2**a * 5**b, and
\* raises ValueError otherwise; no common factor is removed.  For a
\* numerator and a denominator that are relatively prime this is the
\* reduced denominator.
C17_SucceedsIffDenominator ==
    IsExactConversion
    => /\ result.tag \in {"IntermediateForm", "ValueError"}
       /\ result.tag = "IntermediateForm" <=> IsTwoFivePower(input.denominator)
       /\ Gcd(input.numerator, input.denominator) = 1
            => (result.tag = "ValueError"
                  <=> HasOtherPrimeFactor(input.denominator))

\* 3/6 is 1/2, but the denominator 6 that is passed has the factor 3.
C17_Witness ==
    /\ op = "from_signed_fraction"
    /\ input = SignedFraction(0, 3, 6)
    /\ args.exponent = None
    /\ IsTwoFivePower(input.denominator \div Gcd(input.numerator,
                                                 input.denominator))
    /\ result = ValueError

\* A call from_signed_fraction(sign, numerator, denominator, None) that
\* returned a value.
IsExactConversionDone == IsExactConversion /\ result.tag = "IntermediateForm"

\* The result is exactly (-1)**sign * numerator / denominator, and its
\* exponent is -max(a, b) for denominator = 2**a * 5**b.
ExactWithExponentMaxAB ==
    /\ result.sign = input.sign
    /\ result.exponent <= 0
    /\ result.significand * input.denominator
         = input.numerator * (10 ^ (-result.exponent))
    /\ \E a, b \in 0..MaxPrimeExponent :
         /\ input.denominator = (2 ^ a) * (5 ^ b)
         /\ result.exponent = -Max(a, b)

\* E is the smallest e >= 0 for which m * 10**e / d is an integer.
IsSmallestExponent(E, m, d) ==
    /\ E >= 0
    /\ (m * (10 ^ E)) % d = 0
    /\ \A e \in 0..(E - 1) : (m * (10 ^ e)) % d # 0

\* C18, as claimed: when from_signed_fraction with exponent=None succeeds
\* on numerator / denominator with denominator = 2**a * 5**b, the result
\* is exactly numerator / denominator, has exponent -max(a, b), and
\* max(a, b) is the smallest e >= 0 for which
\* numerator * 10**e / denominator is an integer.
C18_ExactWithSmallestExponent ==
    IsExactConversionDone
    => /\ ExactWithExponentMaxAB
       /\ IsSmallestExponent(-result.exponent,
                             input.numerator, input.denominator)

\* C18, amended: when from_signed_fraction with exponent=None succeeds on
\* numerator / denominator with denominator = 2**a * 5**b, the result is
\* exactly numerator / denominator, has exponent -max(a, b), and max(a, b)
\* is the smallest e >= 0 for which 10**e / denominator is an integer;
\* when numerator and denominator are relatively prime it is also the
\* smallest e for which numerator * 10**e / denominator is an integer.
C18_ExactWithSmallestExponentForDenominator ==
    IsExactConversionDone
    => /\ ExactWithExponentMaxAB
       /\ IsSmallestExponent(-result.exponent, 1, input.denominator)
       /\ Gcd(input.numerator, input.denominator) = 1
            => IsSmallestExponent(-result.exponent,
                                  input.numerator, input.denominator)

\* 2/4 becomes 50e-2: exact, with exponent -2 for the denominator 2**2,
\* although 2 * 10 / 4 is an integer already.
C18_Witness ==
    /\ op = "from_signed_fraction"
    /\ input = SignedFraction(0, 2, 4)
    /\ args.exponent = None
    /\ result = IntermediateForm(0, 50, -2)
    /\ IsSmallestExponent(1, input.numerator, input.denominator)
    /\ IsSmallestExponent(2, 1, input.denominator)

\* A finite value other than zero.
IsNonzeroFinite(v) ==
    IF v.tag = "Fraction" THEN v.numerator # 0
    ELSE IF v.tag = "Decimal" THEN v.special = "finite" /\ v.significand # 0
    ELSE v.significand # 0

\* 10**e <= |v| < 10**(e + 1)
InDecade(v, e) ==
    /\ Scaled(v, e).n >= Scaled(v, e).d
    /\ Scaled(v, e + 1).n < Scaled(v, e + 1).d

\* C19: decade is exact.  For every nonzero Fraction x the Fraction
\* overload of decade returns the unique integer e with
\* 10**e <= |x| < 10**(e + 1); for every nonzero IntermediateForm the
\* property decade, exponent + figures - 1, is that integer (and so is the
\* decade of a nonzero finite Decimal).
C19_DecadeExact ==
    (op = "decade" /\ IsNonzeroFinite(input))
    => /\ result.tag = "int"
       /\ \A e \in DecadeRange : InDecade(input, e) <=> e = result.value
       /\ input.tag = "IntermediateForm"
            => result.value
                 = input.exponent + IntermediateForm_figures(input) - 1

\* 1/10 is in decade -1: "1" is not below "10" once the trailing zero of
\* the denominator is stripped.
C19_Witness ==
    /\ op = "decade"
    /\ input = Fraction(1, 10)
    /\ StrLess(str(1), str(10))
    /\ ~StrLess(rstrip0(str(1)), rstrip0(str(10)))
    /\ result = PyInt(-1)

\* C20: for every nonzero finite x with decade e and every figures >= 1,
\* round_to_figures(x, figures) with ties-to-even has the same value as
\* round_to_places(x, figures - e - 1) with ties-to-even, also when the
\* result is rounded up to the next power of ten.
C20_FiguresAsPlaces ==
    (/\ op = "round_to_figures"
     /\ args.figures >= 1
     /\ args.mode = TIES_TO_EVEN
     /\ IsNonzeroFinite(input))
    => LET places == args.figures - ExactDecade(input) - 1
           byPlaces == round_to_places(input, places, TIES_TO_EVEN).result
       IN  /\ result.tag = input.tag
           /\ byPlaces.tag = input.tag
           /\ SameValue(result, byPlaces)

\* 9.6 to one figure is 1e1, and to zero places it is 10: the same value.
C20_Witness ==
    /\ op = "round_to_figures"
    /\ input = Decimal("finite", 0, 96, -1)
    /\ args.figures = 1
    /\ args.mode = TIES_TO_EVEN
    /\ ExactDecade(input) = 0
    /\ result = Decimal("finite", 0, 1, 1)
    /\ round_to_places(input, 0, TIES_TO_EVEN).result
         = Decimal("finite", 0, 10, 0)

\* C21: the zero convention of round_to_figures.  For a zero input (either
\* sign, any stored exponent), every figures >= 1 and every mode, the decade
\* is taken as 0: the value rounded to is a zero with exponent 1 - figures
\* and the sign of the input, and that zero is what is returned, in the type
\* of the input.
C21_ZeroConvention ==
    (/\ op = "round_to_figures"
     /\ args.figures >= 1
     /\ is_zero(input))
    => /\ rounded = IntermediateForm(SignOf(input), 0, 1 - args.figures)
       /\ result.tag = input.tag
       /\ input.tag = "Decimal"
            => result = Decimal("finite", input.sign, 0, 1 - args.figures)
       /\ input.tag = "Fraction" => result = Fraction(0, 1)

\* -0e1 to two figures is -0.0: the stored exponent 1 is replaced by -1.
C21_Witness ==
    /\ op = "round_to_figures"
    /\ input = Decimal("finite", 1, 0, 1)
    /\ args.figures = 2
    /\ args.mode = TO_AWAY
    /\ prerounded = IntermediateForm(1, 0, 1)
    /\ result = Decimal("finite", 1, 0, -1)

\* C22: IntermediateForm.round to an exponent at or below the receiver's
\* discards nothing.  For every mode the result has the sign of the receiver,
\* its significand times 10**(self.exponent - target_exponent) and the
\* target exponent, so its value is the receiver's, and all 13 modes give
\* the same result.
C22_RoundDownwardsIsExact ==
    (/\ op = "round"
     /\ args.exponent <= input.exponent)
    => /\ result.tag = "IntermediateForm"
       /\ result.sign = input.sign
       /\ result.significand
            = input.significand * (10 ^ (input.exponent - args.exponent))
       /\ result.exponent = args.exponent
       /\ DistNum(input, result, args.exponent) = 0
       /\ \A mode \in Modes :
            IntermediateForm_round(input, args.exponent, mode) = result

\* -37e1 rounded to exponent -2 is -37000e-2.
C22_Witness ==
    /\ op = "round"
    /\ input = IntermediateForm(1, 37, 1)
    /\ args.exponent = -2
    /\ args.mode = TO_AWAY
    /\ result = IntermediateForm(1, 37000, -2)

\* A call of round_for_format on a nonzero finite value that pre-rounded it.
IsPreroundForFormat ==
    /\ op = "round_for_format"
    /\ IsNonzeroFinite(input)
    /\ prerounded.tag = "IntermediateForm"

MaxUnderestimate == 2

\* C24: a decade overload may underestimate.  For every nonzero x, every
\* figures >= 1 and every mode, round_to_figures and round_for_format return
\* what they return with the exact decade e when decade(x) returns any lower
\* bound e - k instead: the target exponent is taken again from the decade
\* of the pre-rounded value.
C24_DecadeMayUnderestimate ==
    (/\ op \in {"round_to_figures", "round_for_format"}
     /\ IsNonzeroFinite(input)
     /\ op = "round_to_figures" => args.figures >= 1)
    => LET e == ExactDecade(input) IN
       \A k \in 0..MaxUnderestimate :
            IF op = "round_to_figures"
            THEN round_to_figures_with_decade(
                     input, args.figures, args.mode, e - k).result = result
            ELSE round_for_format_with_decade(
                     input, args.format, args.mode, args.zero_exponent,
                     e - k).result = result

\* 19/2 to one figure with decade -2 for the exact 0: pre-rounded to 9500e-3
\* where the exact decade gives 95e-1, and rounded to 1e1 in both cases.
C24_Witness ==
    /\ op = "round_to_figures"
    /\ input = Fraction(19, 2)
    /\ args.figures = 1
    /\ args.mode = TIES_TO_AWAY
    /\ ExactDecade(input) = 0
    /\ prerounded = IntermediateForm(0, 95, -1)
    /\ round_to_figures_with_decade(input, 1, TIES_TO_AWAY, -2).prerounded
         = IntermediateForm(0, 9500, -3)
    /\ round_to_figures_with_decade(input, 1, TIES_TO_AWAY, -2).result
         = result
    /\ result = Fraction(10, 1)

\* The number of decimal digits of n >= 0, none for 0.
DigitCount(n) ==
    IF n = 0 THEN 0
    ELSE CHOOSE k \in 1..10 : 10 ^ (k - 1) <= n /\ n < 10 ^ k

\* C25: IntermediateForm.nudge(figures) returns the receiver unchanged when
\* it has at most `figures` significand digits; when it has exactly
\* figures + 1 digits and the last digit is 0 it returns a form of the same
\* value with the significand divided by 10 and the exponent one larger; in
\* every other case it raises ValueError, and so never returns a form of a
\* different value.
C25_Nudge ==
    op = "nudge"
    => LET digits == DigitCount(input.significand) IN
       /\ digits <= args.figures => result = input
       /\ digits = args.figures + 1 /\ input.significand % 10 = 0
            => /\ result = IntermediateForm(input.sign,
                                            input.significand \div 10,
                                            input.exponent + 1)
               /\ DistNum(input, result, input.exponent) = 0
       /\ (digits > args.figures + 1
             \/ (digits > args.figures /\ input.significand % 10 # 0))
            => result = ValueError
       /\ result.tag = "IntermediateForm"
            => DistNum(input, result, input.exponent) = 0

\* -100e1 nudged to two figures is -10e2.
C25_Witness ==
    /\ op = "nudge"
    /\ input = IntermediateForm(1, 100, 1)
    /\ args.figures = 2
    /\ result = IntermediateForm(1, 10, 2)
    /\ IntermediateForm_nudge(input, 1) = ValueError
    /\ IntermediateForm_nudge(IntermediateForm(1, 104, 1), 2) = ValueError

\* C26: double rounding through TO_ZERO_05_AWAY is harmless.  For every
\* IntermediateForm v, every exponent p and each of the 13 modes,
\* v.round(p - 1, TO_ZERO_05_AWAY).round(p, mode) == v.round(p, mode).
C26_DoubleRoundingHarmless ==
    op = "round"
    => LET first == IntermediateForm_round(input, args.exponent - 1,
                                           TO_ZERO_05_AWAY)
       IN  IntermediateForm_round(first, args.exponent, args.mode) = result

\* 51 to exponent 2 with ties to even: first to 6e1 (the quotient 5 is
\* inexact and is moved to 6), then to 1e2, which is 51 rounded directly;
\* rounding to 5e1 first would have left a tie, rounded to 0e2.
C26_Witness ==
    /\ op = "round"
    /\ input = IntermediateForm(0, 51, 0)
    /\ args.exponent = 2
    /\ args.mode = TIES_TO_EVEN
    /\ IntermediateForm_round(input, 1, TO_ZERO_05_AWAY)
         = IntermediateForm(0, 6, 1)
    /\ IntermediateForm_round(IntermediateForm(0, 5, 1), 2, TIES_TO_EVEN)
         = IntermediateForm(0, 0, 2)
    /\ result = IntermediateForm(0, 1, 2)

\* mode.round for the negated value: the other sign, the same digits.
RoundNegated(mode) ==
    PyInt(RoundingMode_round(mode, 1 - input.sign, input.significand,
                             args.tenths))

\* C27 as stated: for the pairs (TO_ZERO, TO_AWAY) and (TO_MINUS, TO_PLUS),
\* A.round(sign, n, tenths) == B.round(1 - sign, n, tenths) for all n >= 0
\* and tenths in 0..9, and TO_EVEN and TO_ODD do not depend on the sign.
C27_DirectedPairsOppositeUnderNegation ==
    op = "mode_round"
    => /\ args.mode = TO_ZERO => result = RoundNegated(TO_AWAY)
       /\ args.mode = TO_AWAY => result = RoundNegated(TO_ZERO)
       /\ args.mode = TO_MINUS => result = RoundNegated(TO_PLUS)
       /\ args.mode = TO_PLUS => result = RoundNegated(TO_MINUS)
       /\ args.mode \in {TO_EVEN, TO_ODD} => result = RoundNegated(args.mode)

\* C27, amended: TO_MINUS and TO_PLUS are opposites under negation,
\* A.round(sign, n, tenths) == B.round(1 - sign, n, tenths); TO_ZERO,
\* TO_AWAY, TO_EVEN and TO_ODD do not depend on the sign; TO_ZERO and
\* TO_AWAY are opposite in direction for either sign, TO_ZERO returning n
\* and TO_AWAY returning n + 1 when tenths > 0.
C27_MinusPlusOppositeUnderNegation ==
    op = "mode_round"
    => /\ args.mode = TO_MINUS => result = RoundNegated(TO_PLUS)
       /\ args.mode = TO_PLUS => result = RoundNegated(TO_MINUS)
       /\ args.mode \in {TO_ZERO, TO_AWAY, TO_EVEN, TO_ODD}
            => result = RoundNegated(args.mode)
       /\ args.mode = TO_ZERO => result = PyInt(input.significand)
       /\ args.mode = TO_AWAY
            => result = PyInt(input.significand
                                + (IF args.tenths > 0 THEN 1 ELSE 0))

\* TO_MINUS rounds -3.5 to -4, the negation of the 4 that TO_PLUS gives for
\* 3.5, while TO_ZERO gives -3 and 3, and TO_AWAY -4 and 4.
C27_Witness ==
    /\ op = "mode_round"
    /\ input.sign = 1
    /\ input.significand = 3
    /\ args.tenths = 5
    /\ args.mode = TO_MINUS
    /\ result = PyInt(4)
    /\ RoundNegated(TO_PLUS) = PyInt(4)
    /\ RoundingMode_round(TO_ZERO, 1, 3, 5) = 3
    /\ RoundingMode_round(TO_AWAY, 0, 3, 5) = 4

\* The exact value of an IntermediateForm in units of 10**e, e at most its
\* exponent: a signed integer.
ValueAt(v, e) == Signed(v.sign, v.significand * (10 ^ (v.exponent - e)))

\* v <= w for the exact values of two IntermediateForms.
ValueLeq(v, w) ==
    LET e == IF v.exponent <= w.exponent THEN v.exponent ELSE w.exponent
    IN  ValueAt(v, e) <= ValueAt(w, e)

\* The values y that a rounded value x is compared with: the integers of up
\* to MaxCompared in magnitude, times the powers of ten up to
\* 10**MaxComparedExponent.
MaxCompared == 25
MaxComparedExponent == 1

ComparedForms ==
    {IntermediateForm(s, c, x) :
        s \in Signs, c \in 0..MaxCompared, x \in 0..MaxComparedExponent}

\* C28: rounding is monotone.  For each of the 13 modes, every target
\* exponent e and any two exact values x <= y, signs included, x rounded to
\* exponent e is at most y rounded to exponent e.
C28_Monotone ==
    op = "round"
    => \A y \in ComparedForms :
        ValueLeq(input, y)
        => ValueLeq(result,
                    IntermediateForm_round(y, args.exponent, args.mode))

\* -15 and -5 rounded to exponent 1 with ties to even: -2e1 and -0e1, in
\* the order of -15 and -5, though the magnitudes round the other way about.
C28_Witness ==
    /\ op = "round"
    /\ input = IntermediateForm(1, 15, 0)
    /\ args.exponent = 1
    /\ args.mode = TIES_TO_EVEN
    /\ result = IntermediateForm(1, 2, 1)
    /\ ValueLeq(input, IntermediateForm(1, 5, 0))
    /\ IntermediateForm_round(IntermediateForm(1, 5, 0), 1, TIES_TO_EVEN)
         = IntermediateForm(1, 0, 1)
    /\ ~ValueLeq(IntermediateForm(1, 0, 1), result)

\* A call from_signed_fraction(sign, numerator, denominator, e) with a
\* nonnegative numerator, a positive denominator and an integer e.
IsPreroundingConversion ==
    /\ op = "from_signed_fraction"
    /\ input.numerator >= 0
    /\ input.denominator > 0
    /\ ~args.exponent.is_none

\* C29: the sticky-digit invariant of pre-rounding.  For every numerator
\* >= 0, denominator > 0 and integer exponent e, from_signed_fraction
\* returns a significand s with floor(q) <= s <= floor(q) + 1, q being
\* numerator / (denominator * 10**e); whenever the division is inexact the
\* last digit of s is neither 0 nor 5; and s is 0 only when the numerator
\* is 0.
C29_StickyDigit ==
    IsPreroundingConversion
    => LET e == args.exponent.value
           s == result.significand
       IN  /\ result.tag = "IntermediateForm"
           /\ result.exponent = e
           /\ result.sign = input.sign
           /\ FloorOf(input, e) <= s
           /\ s <= FloorOf(input, e) + 1
           /\ ~IsMultiple(input, e) => s % 10 \notin {0, 5}
           /\ IsMultiple(input, e) => s = FloorOf(input, e)
           /\ s = 0 => input.numerator = 0

\* 1/8 at exponent 1: the quotient 0.0125 has floor 0 and is inexact, and
\* the significand returned is 1, not 0.
C29_Witness ==
    /\ op = "from_signed_fraction"
    /\ input = SignedFraction(0, 1, 8)
    /\ args.exponent = Some(1)
    /\ FloorOf(input, 1) = 0
    /\ ~IsMultiple(input, 1)
    /\ result = IntermediateForm(0, 1, 1)

\* The exact conversion of the arguments of the call:
\* from_signed_fraction(sign, numerator, denominator, None).
ExactlyConverted ==
    from_signed_fraction(input.sign, input.numerator, input.denominator, None)

\* C30 as stated: the two implementations of round-for-reround agree.  For
\* every fraction numerator / denominator that is exactly representable in
\* decimal (its denominator in lowest terms is 2**a * 5**b) and every
\* integer exponent e, from_signed_fraction(sign, numerator, denominator, e)
\* equals from_signed_fraction(sign, numerator, denominator, None)
\* .round(e, TO_ZERO_05_AWAY).
C30_PreroundingAgreesWithRounding ==
    (/\ IsPreroundingConversion
     /\ IsTwoFivePower(input.denominator
                         \div Gcd(input.numerator, input.denominator)))
    => /\ ExactlyConverted.tag = "IntermediateForm"
       /\ IntermediateForm_round(ExactlyConverted, args.exponent.value,
                                 TO_ZERO_05_AWAY) = result

\* C30, amended: the two agree for every numerator >= 0 and every
\* denominator that has the form 2**a * 5**b as it is passed, which
\* includes every exactly representable fraction in lowest terms; for a
\* denominator with another prime factor the exact conversion raises
\* ValueError, also when the factor is shared with the numerator.
C30_PreroundingAgreesForDenominator ==
    IsPreroundingConversion
    => /\ IsTwoFivePower(input.denominator)
            => /\ ExactlyConverted.tag = "IntermediateForm"
               /\ IntermediateForm_round(ExactlyConverted,
                                         args.exponent.value,
                                         TO_ZERO_05_AWAY) = result
       /\ ~IsTwoFivePower(input.denominator)
            => /\ ExactlyConverted = ValueError
               /\ result.tag = "IntermediateForm"

\* 1/8 at exponent -1: the quotient 1.25 is inexact and 1 stays 1; the
\* exact 125e-3 rounded to exponent -1 with TO_ZERO_05_AWAY is 1e-1 too.
\* At exponent 1 both give 1e1.
C30_Witness ==
    /\ op = "from_signed_fraction"
    /\ input = SignedFraction(1, 1, 8)
    /\ args.exponent = Some(1)
    /\ ExactlyConverted = IntermediateForm(1, 125, -3)
    /\ IntermediateForm_round(ExactlyConverted, 1, TO_ZERO_05_AWAY)
         = IntermediateForm(1, 1, 1)
    /\ result = IntermediateForm(1, 1, 1)

====
